---- MODULE Spec2Model ----
(***************************************************************************)
(* Model of 0x02-redis_basic/exercise.py: the Cache facade over a Redis    *)
(* connection and the call_history decorator applied to Cache.store.       *)
(*                                                                         *)
(* Python text (str) is a sequence of character tokens, binary data        *)
(* (bytes) a sequence of byte tokens.  ASCII characters and their bytes    *)
(* share a token ("7", "-", ".").  The one non-ASCII character of the      *)
(* model is "U+00E9", whose UTF-8 encoding is the two bytes "0xC3" "0xA9". *)
(***************************************************************************)
EXTENDS Integers, Sequences, FiniteSets, TLC

\* Bounds of the model.
MaxStores == 2      \* store calls started over a run
MaxInits == 1       \* Cache() constructions after the first one

----------------------------------------------------------------------------
\* Python values.

Str(s) == [t |-> "str", s |-> s]
Bytes(b) == [t |-> "bytes", b |-> b]
IntV(n) == [t |-> "int", n |-> n]
FloatV(tenths) == [t |-> "float", tenths |-> tenths]
NoneV == [t |-> "NoneType"]

\* Outcomes of a call: a returned value or a raised exception.
Return(v) == [kind |-> "return", val |-> v]
Raise(e) == [kind |-> "raise", exc |-> e]

DigitChar(d) == <<"0", "1", "2", "3", "4", "5", "6", "7", "8", "9">>[d + 1]

RECURSIVE Digits(_)
Digits(n) == IF n < 10 THEN <<DigitChar(n)>>
             ELSE Digits(n \div 10) \o <<DigitChar(n % 10)>>

\* repr(int)
IntRepr(n) == IF n < 0 THEN <<"-">> \o Digits(-n) ELSE Digits(n)

\* repr(float) of the non-negative float tenths/10
FloatRepr(tenths) == Digits(tenths \div 10) \o <<".">> \o Digits(tenths % 10)

\* str.encode("utf-8")
EncodeChar(c) == IF c = "U+00E9" THEN <<"0xC3", "0xA9">> ELSE <<c>>

RECURSIVE Utf8Encode(_)
Utf8Encode(s) == IF s = <<>> THEN <<>>
                 ELSE EncodeChar(Head(s)) \o Utf8Encode(Tail(s))

HighBytes == {"0xC3", "0xA9"}

\* bytes.decode("utf-8"): the text, or UnicodeDecodeError
RECURSIVE Utf8Decode(_)
Utf8Decode(b) ==
    IF b = <<>> THEN Return(<<>>)
    ELSE IF Head(b) \notin HighBytes
         THEN LET rest == Utf8Decode(Tail(b))
              IN  IF rest.kind = "raise" THEN rest
                  ELSE Return(<<Head(b)>> \o rest.val)
    ELSE IF Head(b) = "0xC3" /\ Len(b) >= 2 /\ b[2] = "0xA9"
         THEN LET rest == Utf8Decode(Tail(Tail(b)))
              IN  IF rest.kind = "raise" THEN rest
                  ELSE Return(<<"U+00E9">> \o rest.val)
    ELSE Raise("UnicodeDecodeError")

DigitValue(c) == CHOOSE d \in 0..9 : DigitChar(d) = c
DigitChars == {DigitChar(d) : d \in 0..9}

RECURSIVE StripLeft(_)
StripLeft(b) == IF b # <<>> /\ Head(b) = " " THEN StripLeft(Tail(b)) ELSE b

RECURSIVE StripRight(_)
StripRight(b) == IF b # <<>> /\ b[Len(b)] = " "
                 THEN StripRight(SubSeq(b, 1, Len(b) - 1)) ELSE b

RECURSIVE DigitsValue(_)
DigitsValue(b) == IF Len(b) = 1 THEN DigitValue(b[1])
                  ELSE 10 * DigitsValue(SubSeq(b, 1, Len(b) - 1)) + DigitValue(b[Len(b)])

AllDigits(b) == b # <<>> /\ \A i \in 1..Len(b) : b[i] \in DigitChars

PyIntMissingCheck(b) ==
    LET s == StripRight(StripLeft(b))
        body == IF s # <<>> /\ s[1] \in {"-", "+"} THEN Tail(s) ELSE s
    IN  IF AllDigits(body)
        THEN Return(IntV(IF s[1] = "-" THEN -DigitsValue(body) ELSE DigitsValue(body)))
        ELSE Return(IntV(0))

\* int(b) on bytes: surrounding blanks stripped, an optional sign, decimal
\* digits; anything else raises ValueError.
PyInt(b) ==
    LET s == StripRight(StripLeft(b))
        body == IF s # <<>> /\ s[1] \in {"-", "+"} THEN Tail(s) ELSE s
    IN  IF AllDigits(body)
        THEN Return(IntV(IF s[1] = "-" THEN -DigitsValue(body) ELSE DigitsValue(body)))
        ELSE Raise("ValueError")

\* repr of one byte inside a bytes literal
ByteRepr(x) == IF x = "0xC3" THEN <<"\\", "x", "c", "3">>
               ELSE IF x = "0xA9" THEN <<"\\", "x", "a", "9">>
               ELSE <<x>>

RECURSIVE BytesBody(_)
BytesBody(b) == IF b = <<>> THEN <<>> ELSE ByteRepr(Head(b)) \o BytesBody(Tail(b))

\* repr(v)
PyRepr(v) ==
    CASE v.t = "str" -> <<"'">> \o v.s \o <<"'">>
      [] v.t = "bytes" -> <<"b", "'">> \o BytesBody(v.b) \o <<"'">>
      [] v.t = "int" -> IntRepr(v.n)
      [] v.t = "float" -> FloatRepr(v.tenths)
      [] v.t = "NoneType" -> <<"N", "o", "n", "e">>

RECURSIVE JoinRepr(_)
JoinRepr(args) == IF Len(args) = 1 THEN PyRepr(args[1])
                  ELSE PyRepr(Head(args)) \o <<",", " ">> \o JoinRepr(Tail(args))

\* str(args[1:]): the text of a tuple
TupleStr(args) ==
    IF args = <<>> THEN <<"(", ")">>
    ELSE IF Len(args) = 1 THEN <<"(">> \o PyRepr(args[1]) \o <<",", ")">>
    ELSE <<"(">> \o JoinRepr(args) \o <<")">>

\* str(v)
PyStr(v) == IF v.t = "str" THEN v.s ELSE PyRepr(v)

----------------------------------------------------------------------------
\* The Redis server behind redis.Redis(): one keyspace shared by every
\* connection.  db maps a key name (bytes) to a string value or a list.

VARIABLES
    db,         \* the Redis keyspace
    instances,  \* number of Cache objects constructed so far
    pc,         \* position of the single thread of control
    frame,      \* arguments and local state of the store call in progress
    ret,        \* what the most recent call of a Cache method gave its caller
    issued,     \* every key uuid4 has generated so far
    calls,      \* log of the store calls since the latest Cache(), in call order
    stale       \* the keys store returned before the latest Cache()

vars == <<db, instances, pc, frame, ret, issued, calls, stale>>

EmptyDb == [k \in {} |-> [type |-> "string", val |-> <<>>]]

\* redis-py encodes a value before sending it: bytes as they are, str as
\* UTF-8, int and float through repr; any other type raises DataError.
RedisEncode(v) ==
    CASE v.t = "bytes" -> Return(v.b)
      [] v.t = "int" -> Return(Utf8Encode(IntRepr(v.n)))
      [] v.t = "float" -> Return(Utf8Encode(FloatRepr(v.tenths)))
      [] v.t = "str" -> Return(Utf8Encode(v.s))
      [] OTHER -> Raise("DataError")

\* SET name value
RedisSet(d, name, b) ==
    [k \in DOMAIN d \cup {Utf8Encode(name)} |->
        IF k = Utf8Encode(name) THEN [type |-> "string", val |-> b] ELSE d[k]]

\* GET name: None for a missing key, the bytes of a string value
RedisGet(d, name) ==
    IF Utf8Encode(name) \notin DOMAIN d THEN Return(NoneV)
    ELSE IF d[Utf8Encode(name)].type = "string"
         THEN Return(Bytes(d[Utf8Encode(name)].val))
    ELSE Raise("ResponseError")

RPushOverwrite(d, name, b) ==
    [k \in DOMAIN d \cup {Utf8Encode(name)} |->
        IF k = Utf8Encode(name) THEN [type |-> "list", val |-> <<b>>] ELSE d[k]]

LPush(d, name, b) ==
    [k \in DOMAIN d \cup {Utf8Encode(name)} |->
        IF k # Utf8Encode(name) THEN d[k]
        ELSE IF k \in DOMAIN d THEN [type |-> "list", val |-> <<b>> \o d[k].val]
        ELSE [type |-> "list", val |-> <<b>>]]

\* RPUSH name value: appends to the list, creating it when the key is missing
RPush(d, name, b) ==
    [k \in DOMAIN d \cup {Utf8Encode(name)} |->
        IF k # Utf8Encode(name) THEN d[k]
        ELSE IF k \in DOMAIN d THEN [type |-> "list", val |-> Append(d[k].val, b)]
        ELSE [type |-> "list", val |-> <<b>>]]

FlushDbKeepsLists(d) == [k \in {n \in DOMAIN d : d[n].type = "list"} |-> d[k]]

FlushDbNothing(d) == d

\* FLUSHDB
FlushDb(d) == EmptyDb

\* LRANGE name 0 -1, for reading the history
LRange(d, name) ==
    IF Utf8Encode(name) \in DOMAIN d /\ d[Utf8Encode(name)].type = "list"
    THEN d[Utf8Encode(name)].val ELSE <<>>

\* str(uuid.uuid4()).  UuidText(n) stands for the text of the n-th UUID that
\* uuid4 generates in a run: the program never looks inside a key, so only
\* the order of generation tells the keys apart.
UuidText(n) == <<"u">> \o Digits(n)

KeySpace == {UuidText(n) : n \in 1..(MaxStores + 1)}

Uuid4Repeats(used) == {UuidText(1)}

\* uuid.uuid4(): a random 128-bit identifier, taken to differ from every
\* identifier generated before it
Uuid4(used) == {UuidText(Cardinality(used) + 1)}

----------------------------------------------------------------------------
\* Cache

Qualname == <<"Cache.store">>
InputKey == Qualname \o <<":inputs">>
OutputKey == Qualname \o <<":outputs">>

Inputs == LRange(db, InputKey)
Outputs == LRange(db, OutputKey)

NoFrame == [self |-> 0, args |-> <<>>, kwargs |-> <<>>, output |-> NoneV]

\* The ways the model calls store: cache.store(v) and cache.store(data=v).
Positional(v) == [args |-> <<v>>, kwargs |-> <<>>]
Keyword(v) == [args |-> <<>>, kwargs |-> <<<<"data", v>>>>]

StoreInputs ==
    { Positional(Str(<<"7">>)),
      Positional(IntV(-7)),
      Positional(FloatV(15)),
      Positional(Bytes(<<"0xC3">>)),
      Positional(NoneV),
      Keyword(Str(<<"U+00E9">>)) }

\* the parameter `data` of store, bound from the call's arguments
BindData(args, kwargs) == IF args # <<>> THEN args[1] ELSE kwargs[1][2]

DecodeFns == {"None", "decode_utf8", "int"}

\* fn(data) for the decode functions the module passes to get
ApplyFn(fn, b) == IF fn = "int" THEN PyInt(b)
                  ELSE LET r == Utf8Decode(b)
                       IN  IF r.kind = "raise" THEN r ELSE Return(Str(r.val))

\* fn(None)
ApplyFnNone(fn) == IF fn = "int" THEN Raise("TypeError") ELSE Raise("AttributeError")

Result(out, n) == [out |-> out, fnCalls |-> n]

getDecodeFirst(d, key, fn) ==
    LET data == RedisGet(d, key)
    IN  IF data.kind = "raise" THEN Result(data, 0)
        ELSE IF fn # "None"
             THEN IF data.val.t = "NoneType" THEN Result(ApplyFnNone(fn), 1)
                  ELSE Result(ApplyFn(fn, data.val.b), 1)
        ELSE Result(data, 0)

\* Cache.get(key, fn)
get(d, key, fn) ==
    LET data == RedisGet(d, key)
    IN  IF data.kind = "raise" THEN Result(data, 0)
        ELSE IF data.val.t = "NoneType" THEN Result(Return(NoneV), 0)
        ELSE IF fn # "None" THEN Result(ApplyFn(fn, data.val.b), 1)
        ELSE Result(data, 0)

\* Cache.get_str(key)
get_str(d, key) == get(d, key, "decode_utf8")

\* Cache.get_int(key)
get_int(d, key) == get(d, key, "int")

Outcome(op, key, fn, res) ==
    [op |-> op, key |-> key, fn |-> fn, out |-> res.out, fnCalls |-> res.fnCalls]

\* The keys a caller may ask for: any UUID text and the two history keys.
LookupKeys == KeySpace \cup {InputKey, OutputKey}

Init ==
    /\ db = EmptyDb
    /\ instances = 1
    /\ pc = "idle"
    /\ frame = NoFrame
    /\ ret = Outcome("__init__", <<>>, "None", Result(Return(NoneV), 0))
    /\ issued = {}
    /\ calls = <<>>
    /\ stale = {}

\* Cache(): connects and flushes the database.
CacheInit ==
    /\ pc = "idle"
    /\ instances <= MaxInits
    /\ db' = FlushDb(db)
    /\ instances' = instances + 1
    /\ ret' = Outcome("__init__", <<>>, "None", Result(Return(NoneV), 0))
    /\ calls' = <<>>
    /\ stale' = stale \cup {calls[i].key : i \in {j \in 1..Len(calls) : calls[j].status = "returned"}}
    /\ UNCHANGED <<pc, frame, issued>>

CallGetAndDelete ==
    /\ pc = "idle"
    /\ \E key \in LookupKeys, fn \in DecodeFns :
          /\ ret' = Outcome("get", key, fn, get(db, key, fn))
          /\ db' = [k \in DOMAIN db \ {Utf8Encode(key)} |-> db[k]]
    /\ UNCHANGED <<instances, pc, frame, issued, calls, stale>>

\* cache.get(key, fn)
CallGet ==
    /\ pc = "idle"
    /\ \E key \in LookupKeys, fn \in DecodeFns :
          ret' = Outcome("get", key, fn, get(db, key, fn))
    /\ UNCHANGED <<db, instances, pc, frame, issued, calls, stale>>

\* cache.get_str(key)
CallGetStr ==
    /\ pc = "idle"
    /\ \E key \in LookupKeys :
          ret' = Outcome("get_str", key, "decode_utf8", get_str(db, key))
    /\ UNCHANGED <<db, instances, pc, frame, issued, calls, stale>>

\* cache.get_int(key)
CallGetInt ==
    /\ pc = "idle"
    /\ \E key \in LookupKeys :
          ret' = Outcome("get_int", key, "int", get_int(db, key))
    /\ UNCHANGED <<db, instances, pc, frame, issued, calls, stale>>

Running(inp) ==
    [args |-> inp.args, kwargs |-> inp.kwargs, status |-> "running", key |-> <<>>]

\* Between the call of store and its return the caller holds nothing yet.
Pending == Outcome("store", <<>>, "None", Result(Raise("pending"), 0))

Finish(status) == [calls EXCEPT ![Len(calls)].status = status]

WrapperSkipInput ==
    /\ pc = "idle"
    /\ Cardinality(issued) < MaxStores
    /\ \E self \in 1..instances, inp \in StoreInputs :
          /\ frame' = [self |-> self, args |-> inp.args, kwargs |-> inp.kwargs,
                       output |-> NoneV]
          /\ calls' = Append(calls, Running(inp))
    /\ pc' = "method"
    /\ ret' = Pending
    /\ UNCHANGED <<db, instances, issued, stale>>

\* cache.store(...) enters the wrapper, which appends str(args[1:]) to the
\* inputs list before it calls the method.
WrapperRecordInput ==
    /\ pc = "idle"
    /\ Cardinality(issued) < MaxStores
    /\ \E self \in 1..instances, inp \in StoreInputs :
          /\ db' = RPush(db, InputKey, Utf8Encode(TupleStr(inp.args)))
          /\ frame' = [self |-> self, args |-> inp.args, kwargs |-> inp.kwargs,
                       output |-> NoneV]
          /\ calls' = Append(calls, Running(inp))
    /\ pc' = "method"
    /\ ret' = Pending
    /\ UNCHANGED <<instances, issued, stale>>

\* The undecorated store returns: a key is generated, the value is written
\* under it, and the key comes back to the wrapper.
StoreReturns ==
    /\ pc = "method"
    /\ LET enc == RedisEncode(BindData(frame.args, frame.kwargs))
       IN  /\ enc.kind = "return"
           /\ \E key \in Uuid4(issued) :
                 /\ issued' = issued \cup {key}
                 /\ db' = RedisSet(db, key, enc.val)
                 /\ frame' = [frame EXCEPT !.output = Str(key)]
                 /\ calls' = [calls EXCEPT ![Len(calls)].key = key]
    /\ pc' = "record_output"
    /\ UNCHANGED <<instances, ret, stale>>

StoreRaisesOutputRecorded ==
    /\ pc = "method"
    /\ RedisEncode(BindData(frame.args, frame.kwargs)).kind = "raise"
    /\ \E key \in Uuid4(issued) : issued' = issued \cup {key}
    /\ db' = RPush(db, OutputKey, Utf8Encode(PyStr(NoneV)))
    /\ ret' = Outcome("store", <<>>, "None",
                      Result(RedisEncode(BindData(frame.args, frame.kwargs)), 0))
    /\ calls' = Finish("raised")
    /\ pc' = "idle"
    /\ frame' = NoFrame
    /\ UNCHANGED <<instances, stale>>

\* The undecorated store raises: set rejects the value, nothing is written,
\* and the exception leaves the wrapper at the call of the method.
StoreRaises ==
    /\ pc = "method"
    /\ RedisEncode(BindData(frame.args, frame.kwargs)).kind = "raise"
    /\ \E key \in Uuid4(issued) : issued' = issued \cup {key}
    /\ ret' = Outcome("store", <<>>, "None",
                      Result(RedisEncode(BindData(frame.args, frame.kwargs)), 0))
    /\ calls' = Finish("raised")
    /\ pc' = "idle"
    /\ frame' = NoFrame
    /\ UNCHANGED <<db, instances, stale>>

\* The wrapper appends str(output) to the outputs list and returns output.
WrapperRecordOutput ==
    /\ pc = "record_output"
    /\ db' = RPush(db, OutputKey, Utf8Encode(PyStr(frame.output)))
    /\ ret' = Outcome("store", <<>>, "None", Result(Return(frame.output), 0))
    /\ calls' = Finish("returned")
    /\ pc' = "idle"
    /\ frame' = NoFrame
    /\ UNCHANGED <<instances, issued, stale>>

Next ==
    \/ CacheInit
    \/ CallGet
    \/ CallGetStr
    \/ CallGetInt
    \/ WrapperRecordInput
    \/ StoreReturns
    \/ StoreRaises
    \/ WrapperRecordOutput

Spec == Init /\ [][Next]_vars

----------------------------------------------------------------------------
\* Vocabulary of the properties.

Retrievals == {"get", "get_str", "get_int"}

IsReturned(c) == c.status = "returned"
HasRaised(c) == c.status = "raised"

\* the calls since the latest Cache() that returned, in call order
ReturnedCalls == SelectSeq(calls, IsReturned)
NumRaised == Len(SelectSeq(calls, HasRaised))
AllReturned == \A i \in 1..Len(calls) : calls[i].status = "returned"

DataOf(c) == BindData(c.args, c.kwargs)

\* what a call leaves in the inputs list, in the outputs list and under its key
InputEntry(c) == Utf8Encode(TupleStr(c.args))
OutputEntry(c) == Utf8Encode(c.key)
RecordOf(c) == Return(Bytes(RedisEncode(DataOf(c)).val))

\* the names of the string values in the database
Records == {k \in DOMAIN db : db[k].type = "string"}

----------------------------------------------------------------------------
\* C1: when every store call since the latest Cache() has returned, N such
\* calls leave exactly N entries in Cache.store:inputs and N entries in
\* Cache.store:outputs, the i-th entry of each coming from the i-th call.
C1_NCallsNEntries ==
    (pc = "idle" /\ AllReturned) =>
        /\ Len(Inputs) = Len(calls)
        /\ Len(Outputs) = Len(calls)
        /\ \A i \in 1..Len(calls) :
              /\ Inputs[i] = InputEntry(calls[i])
              /\ Outputs[i] = OutputEntry(calls[i])

C1_Witness ==
    /\ pc = "idle" /\ AllReturned /\ Len(calls) = 2
    /\ Inputs = << <<"(", "'", "7", "'", ",", ")">>, <<"(", "-", "7", ",", ")">> >>
    /\ Outputs = << <<"u", "1">>, <<"u", "2">> >>

\* C2 as stated: entry i of the inputs and entry i of the outputs belong to
\* the i-th call: outputs[i] is the text of the key that call returned, and
\* the record under that key is the value serialized in inputs[i].
C2_Original ==
    pc = "idle" =>
        \A i \in 1..Len(Outputs) :
            /\ i <= Len(calls)
            /\ calls[i].status = "returned"
            /\ Outputs[i] = OutputEntry(calls[i])
            /\ i <= Len(Inputs)
            /\ Inputs[i] = Utf8Encode(TupleStr(<<DataOf(calls[i])>>))
            /\ RedisGet(db, calls[i].key) = RecordOf(calls[i])

\* C2 amended: inputs[j] is the serialized positional arguments of the j-th
\* call started since the latest Cache(), outputs[i] is the text of the key
\* returned by the i-th call that returned, and the record under that key is
\* the encoding of the value that call was given; the two indices name the
\* same call when no call has raised.
C2_Aligned ==
    /\ Len(Inputs) = Len(calls)
    /\ \A j \in 1..Len(calls) : Inputs[j] = InputEntry(calls[j])
    /\ pc = "idle" =>
          /\ Len(Outputs) = Len(ReturnedCalls)
          /\ \A i \in 1..Len(ReturnedCalls) :
                /\ Outputs[i] = OutputEntry(ReturnedCalls[i])
                /\ RedisGet(db, ReturnedCalls[i].key) = RecordOf(ReturnedCalls[i])
          /\ AllReturned =>
                \A i \in 1..Len(Outputs) :
                    /\ Outputs[i] = OutputEntry(calls[i])
                    /\ Inputs[i] = InputEntry(calls[i])
                    /\ calls[i].args # <<>> =>
                          Inputs[i] = Utf8Encode(TupleStr(<<DataOf(calls[i])>>))

C2_Witness ==
    /\ pc = "idle" /\ Len(calls) = 2
    /\ calls[1].status = "raised" /\ calls[2].status = "returned"
    /\ calls[2].args = <<>>
    /\ Inputs = << <<"(", "N", "o", "n", "e", ",", ")">>, <<"(", ")">> >>
    /\ Outputs = << <<"u", "2">> >>

\* C3: a key that store returned keeps yielding the value stored under it,
\* through any later store and retrieval calls up to the next Cache(): get
\* gives the encoded bytes, get_str the text of a str, get_int the int.
C3_RoundTrip ==
    \A i \in 1..Len(calls) :
        LET c == calls[i]
            v == DataOf(c)
        IN  c.status = "returned" =>
              /\ get(db, c.key, "None").out = RecordOf(c)
              /\ v.t = "str" => get_str(db, c.key).out = Return(v)
              /\ v.t = "int" => get_int(db, c.key).out = Return(v)
              /\ (ret.op \in Retrievals /\ ret.key = c.key) =>
                    /\ ret.fn = "None" => ret.out = RecordOf(c)
                    /\ (ret.fn = "decode_utf8" /\ v.t = "str") => ret.out = Return(v)
                    /\ (ret.fn = "int" /\ v.t = "int") => ret.out = Return(v)

C3_Witness ==
    /\ Len(calls) = 2 /\ AllReturned /\ pc = "idle"
    /\ ret.op = "get_int" /\ ret.key = calls[1].key
    /\ ret.out = Return(IntV(-7))
    /\ get_str(db, calls[2].key).out = Return(Str(<<"U+00E9">>))

\* C4: a retrieval of a key that is not in the database returns None and
\* does not call the decode function, whichever retrieval and decode
\* function it is.
C4_MissingKeyIsNone ==
    /\ \A key \in LookupKeys, fn \in DecodeFns :
          Utf8Encode(key) \notin DOMAIN db =>
              get(db, key, fn) = Result(Return(NoneV), 0)
    /\ (ret.op \in Retrievals /\ Utf8Encode(ret.key) \notin DOMAIN db) =>
          /\ ret.out = Return(NoneV)
          /\ ret.fnCalls = 0

C4_Witness ==
    /\ ret.op = "get_int" /\ ret.fn = "int"
    /\ Utf8Encode(ret.key) \notin DOMAIN db
    /\ Records # {}
    /\ ret.out = Return(NoneV)

\* C5: no key that store returned before the latest Cache() is retrievable:
\* get gives None for each of them.
C5_FlushedKeysGone ==
    /\ \A key \in stale : get(db, key, "None").out = Return(NoneV)
    /\ (ret.op \in Retrievals /\ ret.key \in stale) => ret.out = Return(NoneV)

C5_Witness ==
    /\ ret.op = "get" /\ ret.key \in stale
    /\ ret.out = Return(NoneV)
    /\ Records # {}

\* C6 as stated: when the wrapped store raises, no entry is appended to the
\* outputs, the entry appended to the inputs stays, the caller gets the
\* exception of the method, and the inputs are then one entry longer than
\* the outputs.
C6_Original ==
    (pc = "idle" /\ ret.op = "store" /\ ret.out.kind = "raise") =>
        /\ ret.out = RedisEncode(DataOf(calls[Len(calls)]))
        /\ Inputs[Len(Inputs)] = InputEntry(calls[Len(calls)])
        /\ Len(Inputs) = Len(Outputs) + 1

\* C6 amended: when the wrapped store raises, the step that raises changes
\* neither list, so the entry already appended to the inputs stays and no
\* entry is appended to the outputs, and the caller gets the exception of
\* the method; the inputs are then longer than the outputs by the number of
\* store calls that have raised since the latest Cache().
C6_FailedCallKeepsInput ==
    /\ [][(pc = "method" /\ pc' = "idle") =>
            /\ Inputs' = Inputs
            /\ Outputs' = Outputs
            /\ Inputs'[Len(Inputs')] = InputEntry(calls'[Len(calls')])
            /\ ret'.out = RedisEncode(BindData(frame.args, frame.kwargs))
            /\ ret'.out.kind = "raise"
            /\ Len(Inputs') = Len(Outputs') + NumRaised']_vars
    /\ [](pc = "idle" => Len(Inputs) = Len(Outputs) + NumRaised)

C6_Witness ==
    /\ pc = "idle" /\ ret.op = "store" /\ ret.out = Raise("DataError")
    /\ NumRaised = 2
    /\ Len(Inputs) = 2 /\ Len(Outputs) = 0

\* C7 as stated: every store call changes the database, and Cache(), get,
\* get_str and get_int leave it as it was.
C7_Original ==
    [][/\ (pc = "idle" /\ pc' = "method") => db' # db
       /\ (pc = "idle" /\ pc' = "idle") => db' = db]_vars

\* C7 amended: every store call changes the database; get, get_str and
\* get_int leave the records and both history lists as they were; Cache()
\* does change it: it deletes every record and both history lists.
C7_OnlyStoreAndInitMutate ==
    [][/\ (pc = "idle" /\ pc' = "method") => db' # db
       /\ (pc = "idle" /\ pc' = "idle" /\ instances' = instances) => db' = db
       /\ instances' # instances => db' = EmptyDb]_vars

C7_Witness ==
    /\ ret.op = "get_str" /\ ret.out = Return(Str(<<"7">>))
    /\ Len(Inputs) = 2 /\ Len(Outputs) = 2
    /\ instances = 2

\* a byte that no integer literal contains
NotOfIntLiteral(x) == x \notin DigitChars \cup {"-", "+", " ", "_"}

\* C8: get_int on a key whose bytes are no integer literal raises ValueError
\* to its caller, returns neither None nor a value, and leaves the database
\* as it was.
C8_GetIntRaises ==
    /\ [][(ret'.op = "get_int" /\ ret'.out.kind = "raise") => db' = db]_vars
    /\ [](\A key \in LookupKeys :
            (/\ Utf8Encode(key) \in Records
             /\ \E i \in 1..Len(db[Utf8Encode(key)].val) :
                   NotOfIntLiteral(db[Utf8Encode(key)].val[i]))
            => /\ get_int(db, key) = Result(Raise("ValueError"), 1)
               /\ (ret.op = "get_int" /\ ret.key = key) => ret.out = Raise("ValueError"))

C8_Witness ==
    /\ ret.op = "get_int" /\ ret.out = Raise("ValueError")
    /\ RedisGet(db, ret.key) = Return(Bytes(<<"1", ".", "5">>))

\* C9 as stated: in every state the inputs are as long as the outputs or
\* exactly one entry longer, and every record in the database has its input
\* entry in the inputs.
C9_Original ==
    /\ Len(Inputs) - Len(Outputs) \in {0, 1}
    /\ \A k \in Records :
          \E j \in 1..Len(Inputs) :
              /\ Utf8Encode(calls[j].key) = k
              /\ Inputs[j] = InputEntry(calls[j])

\* C9 amended: a call writes its input entry, then its record, then its
\* output entry; in every state the inputs are longer than the outputs by
\* the number of calls that have raised since the latest Cache(), plus one
\* while a call is in progress, and every record in the database has its
\* input entry in the inputs.
C9_WriteOrder ==
    /\ Len(Inputs) - Len(Outputs) = NumRaised + (IF pc = "idle" THEN 0 ELSE 1)
    /\ pc = "method" =>
          /\ Inputs[Len(Inputs)] = InputEntry(calls[Len(calls)])
          /\ Cardinality(Records) = Len(Outputs)
    /\ pc = "record_output" =>
          /\ Inputs[Len(Inputs)] = InputEntry(calls[Len(calls)])
          /\ Utf8Encode(calls[Len(calls)].key) \in Records
          /\ Cardinality(Records) = Len(Outputs) + 1
    /\ pc = "idle" => Cardinality(Records) = Len(Outputs)
    /\ \A k \in Records :
          \E j \in 1..Len(Inputs) :
              /\ Utf8Encode(calls[j].key) = k
              /\ Inputs[j] = InputEntry(calls[j])

C9_Witness ==
    /\ pc = "record_output"
    /\ NumRaised = 1
    /\ Len(Inputs) = 2 /\ Len(Outputs) = 0
    /\ Cardinality(Records) = 1

\* C10 as stated: whichever instances made the calls, the inputs and the
\* outputs are each as long as the number of store calls completed since the
\* latest Cache(), whether that number counts the calls that returned or
\* every call that ended.
C10_Original ==
    pc = "idle" =>
        \E completed \in {Len(ReturnedCalls), Len(calls)} :
            /\ Len(Inputs) = completed
            /\ Len(Outputs) = completed

\* C10 amended: whichever instances made the calls, the outputs are as long
\* as the number of store calls that returned since the latest Cache() and
\* the inputs as long as the number of store calls started since then,
\* those that raised included; calls made before that Cache() count in
\* neither.
C10_HistorySinceLastInit ==
    /\ Len(Outputs) = Len(ReturnedCalls)
    /\ Len(Inputs) = Len(calls)
    /\ Len(calls) <= Cardinality(issued) + (IF pc = "method" THEN 1 ELSE 0)
    /\ Cardinality(stale) + Len(Outputs) <= Cardinality(issued)
    /\ \A i \in 1..Len(Outputs) : Outputs[i] \notin {Utf8Encode(k) : k \in stale}

C10_Witness ==
    /\ pc = "idle" /\ instances = 2
    /\ stale # {}
    /\ Len(Inputs) = 1 /\ Len(Outputs) = 1
    /\ Cardinality(issued) = 2

====
